---------------------------- MODULE Spec2Model ----------------------------
(***************************************************************************)
(* A model of project-dumper: one run of main() over a project tree.       *)
(*                                                                         *)
(* Two entry points exist in the repository and both are modelled:         *)
(*   "cli"  : src/src/project_dumper/cli.py  (the package, with .gitignore)*)
(*   "flat" : src/main.py                    (the single-file version)     *)
(*                                                                         *)
(* Python strings that the code compares, lowercases or takes a suffix of  *)
(* are sequences of character codes (CharsOf); a path relative to the root *)
(* is the sequence of its components.                                      *)
(***************************************************************************)
EXTENDS Integers, Sequences, FiniteSets, TLC

VARIABLES
    program,            \* which main() runs: "cli" or "flat"
    args,             \* the parsed command line (argparse.Namespace)
    root_kind,        \* what args.root resolves to: "dir", "file", "missing"
    fs,               \* the files under the root: relative path -> attributes
    unreadable_dirs,  \* directories whose listing raises PermissionError
    gitignore_file,   \* root/.gitignore: its state and its pattern lines
    pc,               \* position of main()
    gitignore_spec,   \* main's gitignore_spec: None or the loaded patterns
    exclude_dirs,     \* main's exclude_dirs (set of names)
    exclude_exts,     \* main's exclude_exts (set of lowercased suffixes)
    include_exts,     \* main's include_exts: None or a set of suffixes
    pending,          \* os.walk: directories still to visit, next one first
    yielded,          \* paths iter_files has yielded so far, in walk order
    files,            \* main's files: sorted(iter_files(...))
    tree_str,         \* main's tree_str: the lines of the tree block
    result_lines,     \* the assembled document: manifest and content blocks
    written,          \* every write_text made to the output path, in order
    outcome,          \* "running", "ok", or the exception that ended the run
    stdout,           \* the summary line printed: <<>> or <<N>>
    text,             \* add_line_numbers: its argument
    numbered,         \* add_line_numbers: its result, once applied
    output            \* where main's output path lies: "in_root" or "elsewhere"

vars == <<program, args, root_kind, fs, unreadable_dirs, gitignore_file, pc,
          gitignore_spec, exclude_dirs, exclude_exts, include_exts, pending,
          yielded, files, tree_str, result_lines, written, outcome, stdout,
          text, numbered, output>>

-----------------------------------------------------------------------------
(* Bounds of the model *)

\* A scenario differs from the default run (package entry point, default
\* arguments, every file a small readable text file, an empty .gitignore)
\* in at most this many respects.
MaxDeviations == 2

\* add_line_numbers is applied to every text of at most this many characters.
MaxLen == 10

-----------------------------------------------------------------------------
(* Program constants *)

DEFAULT_MAX_BYTES == 2000000

BINARY_DETECTION_SAMPLE_SIZE == 8000

DEFAULT_EXCLUDE_DIRS ==
    {".git", ".hg", ".svn", ".idea", ".vscode", "__pycache__", ".mypy_cache",
     ".pytest_cache", "node_modules", "dist", "build", ".venv", "venv"}

DEFAULT_EXCLUDE_EXTS ==
    {".pyc", ".pyo", ".so", ".dll", ".dylib", ".exe", ".bin", ".obj", ".o",
     ".pdf", ".png", ".jpg", ".jpeg", ".gif", ".webp", ".ico", ".ttf", ".otf",
     ".woff", ".woff2", ".zip", ".tar", ".gz", ".xz", ".7z", ".mp3", ".mp4",
     ".mov", ".avi", ".mkv"}

-----------------------------------------------------------------------------
(* Strings *)

\* The characters of every string the model handles, as code points.
CharsOf ==
    ".gitignore" :> <<46, 103, 105, 116, 105, 103, 110, 111, 114, 101>> @@
    "readme.md" :> <<114, 101, 97, 100, 109, 101, 46, 109, 100>> @@
    "src" :> <<115, 114, 99>> @@
    "a.py" :> <<97, 46, 112, 121>> @@
    "B.PY" :> <<66, 46, 80, 89>> @@
    "gen.py" :> <<103, 101, 110, 46, 112, 121>> @@
    "vendor" :> <<118, 101, 110, 100, 111, 114>> @@
    "keep.txt" :> <<107, 101, 101, 112, 46, 116, 120, 116>> @@
    "project_dump.txt" :> <<112, 114, 111, 106, 101, 99, 116, 95, 100, 117, 109, 112,
                            46, 116, 120, 116>> @@
    "build" :> <<98, 117, 105, 108, 100>> @@
    ".md" :> <<46, 109, 100>> @@
    ".MD" :> <<46, 77, 68>> @@
    ".pyc" :> <<46, 112, 121, 99>> @@
    ".pyo" :> <<46, 112, 121, 111>> @@
    ".so" :> <<46, 115, 111>> @@
    ".dll" :> <<46, 100, 108, 108>> @@
    ".dylib" :> <<46, 100, 121, 108, 105, 98>> @@
    ".exe" :> <<46, 101, 120, 101>> @@
    ".bin" :> <<46, 98, 105, 110>> @@
    ".obj" :> <<46, 111, 98, 106>> @@
    ".o" :> <<46, 111>> @@
    ".pdf" :> <<46, 112, 100, 102>> @@
    ".png" :> <<46, 112, 110, 103>> @@
    ".jpg" :> <<46, 106, 112, 103>> @@
    ".jpeg" :> <<46, 106, 112, 101, 103>> @@
    ".gif" :> <<46, 103, 105, 102>> @@
    ".webp" :> <<46, 119, 101, 98, 112>> @@
    ".ico" :> <<46, 105, 99, 111>> @@
    ".ttf" :> <<46, 116, 116, 102>> @@
    ".otf" :> <<46, 111, 116, 102>> @@
    ".woff" :> <<46, 119, 111, 102, 102>> @@
    ".woff2" :> <<46, 119, 111, 102, 102, 50>> @@
    ".zip" :> <<46, 122, 105, 112>> @@
    ".tar" :> <<46, 116, 97, 114>> @@
    ".gz" :> <<46, 103, 122>> @@
    ".xz" :> <<46, 120, 122>> @@
    ".7z" :> <<46, 55, 122>> @@
    ".mp3" :> <<46, 109, 112, 51>> @@
    ".mp4" :> <<46, 109, 112, 52>> @@
    ".mov" :> <<46, 109, 111, 118>> @@
    ".avi" :> <<46, 97, 118, 105>> @@
    ".mkv" :> <<46, 109, 107, 118>>

Chars(s) == CharsOf[s]

\* str.lower() on ASCII: 'A'..'Z' (65..90) become 'a'..'z'.
Lower(cs) == [i \in 1..Len(cs) |-> IF cs[i] >= 65 /\ cs[i] <= 90 THEN cs[i] + 32 ELSE cs[i]]

\* The largest member of a non-empty set of integers.
MaxOf(S) == CHOOSE m \in S : \A x \in S : x <= m

\* pathlib's PurePath.suffix of a file name: from its last '.', unless that
\* dot is the first or the last character of the name; otherwise ''.
Suffix(cs) ==
    LET dots == {i \in 1..Len(cs) : cs[i] = 46} IN
    IF dots = {} THEN <<>>
    ELSE LET i == MaxOf(dots) IN
         IF 1 < i /\ i < Len(cs) THEN SubSeq(cs, i, Len(cs)) ELSE <<>>

\* Python's str < str: code point by code point, a proper prefix first.
StrLess(a, b) ==
    \E k \in 1..(Len(b)) :
        /\ \A j \in 1..(k - 1) : j <= Len(a) /\ a[j] = b[j]
        /\ k - 1 <= Len(a)
        /\ (k > Len(a) \/ a[k] < b[k])

RECURSIVE JoinSlash(_)
\* str(path.relative_to(root)): the components joined by '/' (47).
JoinSlash(p) ==
    IF Len(p) = 0 THEN <<>>
    ELSE IF Len(p) = 1 THEN Chars(p[1])
    ELSE Chars(p[1]) \o <<47>> \o JoinSlash(Tail(p))

RelStr(p) == JoinSlash(p)

-----------------------------------------------------------------------------
(* The project tree *)

Parent(p) == SubSeq(p, 1, Len(p) - 1)

Name(p) == p[Len(p)]

GITIGNORE == <<".gitignore">>

\* The directories of the tree (<<>> is the root) and the files it may hold.
AllDirs == {<<>>, <<"src">>, <<"src", "build">>, <<"vendor">>}

TreeFiles ==
    {<<"readme.md">>, <<"src", "a.py">>, <<"src", "B.PY">>,
     <<"src", "build", "gen.py">>, <<"vendor", "keep.txt">>}

\* File attributes: size in bytes, 1-based offset of the first NUL byte
\* (0: none), and whether stat(), open() and a later read_text() succeed.
Plain == [size |-> 10, nul |-> 0, stat_ok |-> TRUE, open_ok |-> TRUE, read_ok |-> TRUE]

OddKinds ==
    {[Plain EXCEPT !.size = 11],
     [Plain EXCEPT !.nul = 1],
     [Plain EXCEPT !.size = 9000, !.nul = 8000],
     [Plain EXCEPT !.size = 9000, !.nul = 8001],
     [Plain EXCEPT !.stat_ok = FALSE],
     [Plain EXCEPT !.open_ok = FALSE],
     [Plain EXCEPT !.read_ok = FALSE]}

DirsIn(d) == {x \in AllDirs : Len(x) = Len(d) + 1 /\ Parent(x) = d}

FilesIn(d) == {x \in DOMAIN fs : Len(x) = Len(d) + 1 /\ Parent(x) = d}

\* All orders in which a directory scan may return a set of entries.
Perms(S) ==
    {s \in [1..Cardinality(S) -> S] : \A i, j \in 1..Cardinality(S) : i # j => s[i] # s[j]}


-----------------------------------------------------------------------------
(* gitignore.py *)

\* Python's None for the optional values of the run.
NoSpec == [none |-> TRUE, patterns |-> <<>>]

NoExts == [none |-> TRUE, set |-> {}]

\* One parsed line of .gitignore: "name" or "dir/name", negated by a leading
\* '!'.  A pattern without '/' matches a path with a component of that name
\* (the entry at any depth, and everything beneath it); a pattern with a '/'
\* is anchored at the root and matches that path and everything beneath it.
PatternMatches(pat, rel) ==
    IF Len(pat.segs) = 1
    THEN \E i \in 1..Len(rel) : rel[i] = pat.segs[1]
    ELSE Len(rel) >= Len(pat.segs) /\ SubSeq(rel, 1, Len(pat.segs)) = pat.segs

\* PathSpec.match_file: the last pattern that matches decides; a negated
\* pattern decides "not ignored".
match_file(patterns, rel) ==
    LET M == {i \in 1..Len(patterns) : PatternMatches(patterns[i], rel)} IN
    M # {} /\ ~patterns[MaxOf(M)].neg

matches_gitignore(spec, path) ==
    IF spec.none THEN FALSE ELSE match_file(spec.patterns, path)

\* load_gitignore(root): None when the file is missing or raises OSError.
\* read_text() decodes strictly, so an undecodable file raises instead
\* (LoadRaises).
load_gitignore ==
    IF root_kind # "dir" \/ gitignore_file.state \in {"missing", "unreadable"}
    THEN NoSpec
    ELSE [none |-> FALSE, patterns |-> gitignore_file.patterns]

LoadRaises == root_kind = "dir" /\ gitignore_file.state = "undecodable"

-----------------------------------------------------------------------------
(* files.py: iter_files *)

Min(a, b) == IF a < b THEN a ELSE b

\* is_probably_binary with "except OSError: return False".
UnreadableIsText(path) ==
    IF ~fs[path].open_ok THEN FALSE
    ELSE LET chunk_len == Min(BINARY_DETECTION_SAMPLE_SIZE, fs[path].size) IN
         fs[path].nul # 0 /\ fs[path].nul <= chunk_len

\* is_probably_binary: True when the file cannot be opened, or when a NUL
\* byte lies within the first sample_size bytes read.
is_probably_binary(path) ==
    IF ~fs[path].open_ok THEN TRUE
    ELSE LET chunk_len == Min(BINARY_DETECTION_SAMPLE_SIZE, fs[path].size) IN
         fs[path].nul # 0 /\ fs[path].nul <= chunk_len

\* ext = path.suffix.lower()
ExtOf(path) == Lower(Suffix(Chars(Name(path))))

\* The extension check with a match of the allow-list accepting the file at
\* once, the deny-list consulted only when there is no allow-list.
AllowListBypassesDenyList(ext) ==
    IF ~include_exts.none THEN ext \in include_exts.set
    ELSE ~(ext \in exclude_exts)

\* files.py 49-53: the allow-list, then the deny-list.
PassesExtension(ext) ==
    /\ ~(~include_exts.none /\ ext \notin include_exts.set)
    /\ ~(ext \in exclude_exts)

\* The size check with "if size >= max_bytes: continue".
PassesSizeExclusive(path) ==
    /\ fs[path].stat_ok
    /\ ~(fs[path].size >= args.max_bytes)

\* files.py 55-61: stat() must succeed and the size must not exceed max_bytes.
PassesSize(path) ==
    /\ fs[path].stat_ok
    /\ ~(fs[path].size > args.max_bytes)

\* The last two checks without the ignore rules.
PassesIgnoreNameOnly(path) == ~(Name(path) = ".gitignore")

\* The last two checks without the name of the pattern file.
PassesIgnoreRulesOnly(path) == ~matches_gitignore(gitignore_spec, path)

\* files.py 66-70: the ignore rules, then the name of the pattern file.
PassesIgnore(path) ==
    /\ ~matches_gitignore(gitignore_spec, path)
    /\ ~(Name(path) = ".gitignore")

\* The body of the loop over filenames: TRUE when the file is yielded.
FileYielded(path) ==
    /\ PassesExtension(ExtOf(path))
    /\ PassesSize(path)
    /\ ~is_probably_binary(path)
    /\ PassesIgnore(path)

\* The pruning without "and d not in exclude_dirs".
KeepDirIgnoringNames(d) == ~matches_gitignore(gitignore_spec, d)

\* dirnames[:] = [...]: TRUE when os.walk will descend into directory d.
KeepDir(d) ==
    /\ ~matches_gitignore(gitignore_spec, d)
    /\ Name(d) \notin exclude_dirs

-----------------------------------------------------------------------------
(* main.py: the flat entry point's own copies *)

flat_is_probably_binary(path) ==
    IF ~fs[path].open_ok THEN TRUE
    ELSE LET chunk_len == Min(8000, fs[path].size) IN
         fs[path].nul # 0 /\ fs[path].nul <= chunk_len

FlatFileYielded(path) ==
    LET ext == Lower(Suffix(Chars(Name(path)))) IN
    /\ ~(~include_exts.none /\ ext \notin include_exts.set)
    /\ ~(ext \in exclude_exts)
    /\ fs[path].stat_ok
    /\ ~(fs[path].size > args.max_bytes)
    /\ ~flat_is_probably_binary(path)

FlatKeepDir(d) == Name(d) \notin exclude_dirs

-----------------------------------------------------------------------------
(* Dispatch on the entry point *)

Yields(path) == IF program = "cli" THEN FileYielded(path) ELSE FlatFileYielded(path)

Descends(d) == IF program = "cli" THEN KeepDir(d) ELSE FlatKeepDir(d)

-----------------------------------------------------------------------------
(* sorted(iter_files(...), key=lambda p: str(p.relative_to(root))) *)

\* files = list(iter_files(...)): the walk order kept.
WalkOrderKept(s) == s

RECURSIVE InsertByKey(_, _)
InsertByKey(x, s) ==
    IF s = <<>> THEN <<x>>
    ELSE IF StrLess(RelStr(x), RelStr(Head(s))) THEN <<x>> \o s
    ELSE <<Head(s)>> \o InsertByKey(x, Tail(s))

RECURSIVE SortedByRelStr(_)
SortedByRelStr(s) ==
    IF s = <<>> THEN <<>>
    ELSE InsertByKey(s[Len(s)], SortedByRelStr(SubSeq(s, 1, Len(s) - 1)))

-----------------------------------------------------------------------------
(* tree.py: build_dir_tree *)

\* Path.is_file() / Path.is_dir(): a file whose stat() fails is neither.
is_file(p) == p \in DOMAIN fs /\ fs[p].stat_ok

\* A variant in which a directory the ignore patterns match does not count as
\* one for the tree.
IsDirNotIgnored(p) == p \in AllDirs /\ ~matches_gitignore(gitignore_spec, p)

is_dir(p) == p \in AllDirs

\* key=lambda p: (p.is_file(), p.name.lower()): False sorts before True,
\* then the lowercased names as strings.
TreeKeyLess(p, q) ==
    \/ ~is_file(p) /\ is_file(q)
    \/ /\ is_file(p) = is_file(q)
       /\ StrLess(Lower(Chars(Name(p))), Lower(Chars(Name(q))))

\* sorted(dir_path.iterdir(), key=...): the keys of one directory's entries
\* are distinct, so the sorted list is the one ordered arrangement.
SortedEntries(dir_path) ==
    LET entries == DirsIn(dir_path) \cup FilesIn(dir_path) IN
    CHOOSE s \in Perms(entries) :
        \A i, j \in 1..Len(s) : i < j => TreeKeyLess(s[i], s[j])

RECURSIVE walk(_, _), WalkEntries(_, _, _)
\* walk(dir_path, prefix): the lines appended for dir_path.  The glyphs of
\* the source are written "|-- ", "+-- " and "|   ".
walk(dir_path, prefix) ==
    IF dir_path \in unreadable_dirs THEN <<>>
    ELSE WalkEntries(SortedEntries(dir_path), 1, prefix)

WalkEntries(entries, idx, prefix) ==
    IF idx > Len(entries) THEN <<>>
    ELSE LET entry == entries[idx]
             is_last == idx = Len(entries)
             connector == IF is_last THEN "+-- " ELSE "|-- "
             line == [prefix |-> prefix \o <<connector>>, name |-> Name(entry)]
             new_prefix == prefix \o <<IF is_last THEN "    " ELSE "|   ">>
         IN  <<line>>
             \o (IF is_dir(entry) /\ Name(entry) \notin exclude_dirs
                 THEN walk(entry, new_prefix) ELSE <<>>)
             \o WalkEntries(entries, idx + 1, prefix)

\* The directories walk() lists: the root, and every directory below a
\* listed one whose name is not excluded.
TreeVisited ==
    {d \in AllDirs :
        \A k \in 1..Len(d) : d[k] \notin exclude_dirs}

\* dir_path.iterdir() raises PermissionError on an unreadable directory and
\* nothing in walk, build_dir_tree or main catches it.
TreeRaises == \E d \in TreeVisited : d \in unreadable_dirs

build_dir_tree == <<[prefix |-> <<>>, name |-> "<root>"]>> \o walk(<<>>, <<>>)

-----------------------------------------------------------------------------
(* files.py: read_text_file, and the blocks main assembles *)

\* read_text_file: the decoded text (errors="replace" never raises), or the
\* inline marker when reading raises OSError.
read_text_file(path) ==
    IF fs[path].read_ok THEN "text" ELSE "<<ERROR: could not read file>>"

\* header.py 8-13: the parameters format_header declares, and the keyword
\* arguments each entry point passes beyond the four positional ones.
format_header_params == {"root", "include_exts", "exclude_dirs", "exclude_exts"}

HeaderKeywords == IF program = "cli" THEN {"gitignore_used"} ELSE {}

\* A keyword argument the function does not declare raises TypeError.
HeaderRaises == ~(HeaderKeywords \subseteq format_header_params)

-----------------------------------------------------------------------------
(* The scenarios a run may start from *)

NoneList == [none |-> TRUE, exts |-> <<>>]

DefaultArgs ==
    [include_ext |-> NoneList, exclude_dir |-> <<>>, exclude_ext |-> <<>>,
     max_bytes |-> DEFAULT_MAX_BYTES, no_tree |-> FALSE,
     with_line_numbers |-> FALSE, no_gitignore |-> FALSE]

ArgSpace ==
    [include_ext : {NoneList, [none |-> FALSE, exts |-> <<".MD">>]},
     exclude_dir : {<<>>, <<"vendor">>},
     exclude_ext : {<<>>, <<".md">>},
     max_bytes : {10, 11, DEFAULT_MAX_BYTES},
     no_tree : BOOLEAN,
     with_line_numbers : BOOLEAN,
     no_gitignore : BOOLEAN]

Count(b) == IF b THEN 1 ELSE 0

ArgDeviations(a) ==
    Count(a.include_ext # DefaultArgs.include_ext)
    + Count(a.exclude_dir # DefaultArgs.exclude_dir)
    + Count(a.exclude_ext # DefaultArgs.exclude_ext)
    + Count(a.max_bytes # DefaultArgs.max_bytes)
    + Count(a.no_tree) + Count(a.with_line_numbers) + Count(a.no_gitignore)

\* The pattern lines a .gitignore is written from.
Patterns ==
    {[neg |-> FALSE, segs |-> <<"vendor">>],
     [neg |-> TRUE, segs |-> <<"vendor", "keep.txt">>],
     [neg |-> FALSE, segs |-> <<"readme.md">>],
     [neg |-> TRUE, segs |-> <<"readme.md">>],
     [neg |-> FALSE, segs |-> <<"src", "a.py">>],
     [neg |-> TRUE, segs |-> <<".gitignore">>]}

\* A readable .gitignore of n lines counts n deviations; a missing, an
\* unreadable or an undecodable one counts one.
GitignoreFiles(n) ==
    {[state |-> "ok", patterns |-> p] :
        p \in UNION {[1..k -> Patterns] : k \in 0..n}}
    \cup (IF n >= 1
          THEN {[state |-> st, patterns |-> <<>>] :
                    st \in {"missing", "unreadable", "undecodable"}}
          ELSE {})

GitCost(g) == IF g.state = "ok" THEN Len(g.patterns) ELSE 1

\* Up to n faults: files that are not plain text files, unreadable directories.
FaultSets(n) == {F \in SUBSET (TreeFiles \cup AllDirs) : Cardinality(F) <= n}

Tree(g, F, k) ==
    [gitignore_file |-> g,
     unreadable_dirs |-> F \cap AllDirs,
     fs |-> [p \in TreeFiles \cup (IF g.state = "missing" THEN {} ELSE {GITIGNORE}) |->
                IF p = GITIGNORE
                THEN (IF g.state = "unreadable"
                      THEN [Plain EXCEPT !.open_ok = FALSE, !.read_ok = FALSE]
                      ELSE Plain)
                ELSE IF p \in F THEN k[p] ELSE Plain]]

Trees(n) ==
    UNION {UNION {{Tree(g, F, k) : k \in [F \cap TreeFiles -> OddKinds]} :
                    F \in FaultSets(n - GitCost(g))} :
            g \in GitignoreFiles(n)}

\* The root is a file or does not exist: there is no tree.
NoTree ==
    [gitignore_file |-> [state |-> "missing", patterns |-> <<>>],
     unreadable_dirs |-> {}, fs |-> <<>>]

InitRun ==
    \E e \in {"cli", "flat"}, rk \in {"dir", "file", "missing"}, a \in ArgSpace :
        LET d == Count(e = "flat") + Count(rk # "dir") + ArgDeviations(a) IN
        /\ d <= MaxDeviations
        /\ e = "flat" => ~a.no_gitignore
        /\ \E t \in (IF rk = "dir" THEN Trees(MaxDeviations - d) ELSE {NoTree}) :
            /\ program = e
            /\ args = a
            /\ root_kind = rk
            /\ fs = t.fs
            /\ unreadable_dirs = t.unreadable_dirs
            /\ gitignore_file = t.gitignore_file
        /\ pc = IF e = "cli" THEN "load_gitignore" ELSE "check_root"
        /\ gitignore_spec = NoSpec
        /\ exclude_dirs = {}
        /\ exclude_exts = {}
        /\ include_exts = NoExts
        /\ pending = <<>>
        /\ yielded = <<>>
        /\ files = <<>>
        /\ tree_str = <<>>
        /\ result_lines = <<>>
        /\ written = <<>>
        /\ outcome = "running"
        /\ stdout = <<>>

\* The runs of Spec write their document outside the tree they read.
Init == InitRun /\ text = <<>> /\ numbered = <<>> /\ output = "elsewhere"

-----------------------------------------------------------------------------
(* main() *)

Raise(exc) ==
    /\ outcome' = exc
    /\ pc' = "done"

\* cli.py 89-91: gitignore_spec = load_gitignore(root) unless --no-gitignore.
LoadGitignore ==
    /\ pc = "load_gitignore"
    /\ IF ~args.no_gitignore /\ LoadRaises
       THEN /\ Raise("UnicodeDecodeError")
            /\ UNCHANGED gitignore_spec
       ELSE /\ gitignore_spec' = IF args.no_gitignore THEN NoSpec ELSE load_gitignore
            /\ pc' = "check_root"
            /\ UNCHANGED outcome
    /\ UNCHANGED <<program, args, root_kind, fs, unreadable_dirs, gitignore_file,
                   exclude_dirs, exclude_exts, include_exts, pending, yielded,
                   files, tree_str, result_lines, written, stdout, text, numbered, output>>

\* cli.py 93-107, main.py 280-287: the root must be a directory; then the
\* filter sets are built from the defaults and the arguments.
CheckRoot ==
    /\ pc = "check_root"
    /\ IF root_kind # "dir"
       THEN /\ Raise("SystemExit: Root path does not exist or is not a directory")
            /\ UNCHANGED <<exclude_dirs, exclude_exts, include_exts, pending>>
       ELSE /\ exclude_dirs' = DEFAULT_EXCLUDE_DIRS
                    \cup {args.exclude_dir[i] : i \in 1..Len(args.exclude_dir)}
            /\ exclude_exts' = {Chars(e) : e \in DEFAULT_EXCLUDE_EXTS}
                    \cup {Lower(Chars(args.exclude_ext[i])) : i \in 1..Len(args.exclude_ext)}
            /\ include_exts' =
                    IF args.include_ext.none THEN NoExts
                    ELSE [none |-> FALSE,
                          set |-> {Lower(Chars(args.include_ext.exts[i])) :
                                      i \in 1..Len(args.include_ext.exts)}]
            /\ pending' = <<<<>>>>
            /\ pc' = "walk"
            /\ UNCHANGED outcome
    /\ UNCHANGED <<program, args, root_kind, fs, unreadable_dirs, gitignore_file,
                   gitignore_spec, yielded, files, tree_str, result_lines,
                   written, stdout, text, numbered, output>>

\* One iteration of "for dirpath, dirnames, filenames in os.walk(root)":
\* the scan returns the entries in any order; an unreadable directory is
\* skipped silently (os.walk's onerror is None).
WalkDir ==
    /\ pc = "walk"
    /\ pending # <<>>
    /\ LET dirpath == Head(pending) IN
       IF dirpath \in unreadable_dirs
       THEN /\ pending' = Tail(pending)
            /\ UNCHANGED yielded
       ELSE \E dirnames \in Perms(DirsIn(dirpath)), filenames \in Perms(FilesIn(dirpath)) :
               /\ yielded' = yielded \o SelectSeq(filenames, Yields)
               /\ pending' = SelectSeq(dirnames, Descends) \o Tail(pending)
    /\ UNCHANGED <<program, args, root_kind, fs, unreadable_dirs, gitignore_file, pc,
                   gitignore_spec, exclude_dirs, exclude_exts, include_exts,
                   files, tree_str, result_lines, written, outcome, stdout,
                   text, numbered, output>>

\* cli.py 109-119, main.py 289-292: files = sorted(iter_files(...), key=...),
\* once the walk is exhausted.
SortFiles ==
    /\ pc = "walk"
    /\ pending = <<>>
    /\ files' = SortedByRelStr(yielded)
    /\ pc' = "header"
    /\ UNCHANGED <<program, args, root_kind, fs, unreadable_dirs, gitignore_file,
                   gitignore_spec, exclude_dirs, exclude_exts, include_exts,
                   pending, yielded, tree_str, result_lines, written, outcome,
                   stdout, text, numbered, output>>

\* cli.py 121, main.py 294: header = format_header(...).
FormatHeader ==
    /\ pc = "header"
    /\ IF HeaderRaises
       THEN Raise("TypeError")
       ELSE pc' = "tree" /\ UNCHANGED outcome
    /\ UNCHANGED <<program, args, root_kind, fs, unreadable_dirs, gitignore_file,
                   gitignore_spec, exclude_dirs, exclude_exts, include_exts,
                   pending, yielded, files, tree_str, result_lines, written,
                   stdout, text, numbered, output>>

\* cli.py 123-127, main.py 296-300: the tree block, unless --no-tree.
BuildTree ==
    /\ pc = "tree"
    /\ IF args.no_tree
       THEN /\ tree_str' = <<>>
            /\ pc' = "assemble"
            /\ UNCHANGED outcome
       ELSE IF TreeRaises
       THEN /\ Raise("PermissionError")
            /\ UNCHANGED tree_str
       ELSE /\ tree_str' = build_dir_tree
            /\ pc' = "assemble"
            /\ UNCHANGED outcome
    /\ UNCHANGED <<program, args, root_kind, fs, unreadable_dirs, gitignore_file,
                   gitignore_spec, exclude_dirs, exclude_exts, include_exts,
                   pending, yielded, files, result_lines, written, stdout,
                   text, numbered, output>>

\* cli.py 129-155, main.py 302-328: the manifest, then one block per file.
Assemble ==
    /\ pc = "assemble"
    /\ result_lines' =
          <<[tree |-> tree_str,
             manifest |-> [i \in 1..Len(files) |-> RelStr(files[i])],
             blocks |-> [i \in 1..Len(files) |->
                            [rel |-> RelStr(files[i]),
                             content |-> read_text_file(files[i]),
                             line_numbers |-> args.with_line_numbers]]]>>
    /\ pc' = "write"
    /\ UNCHANGED <<program, args, root_kind, fs, unreadable_dirs, gitignore_file,
                   gitignore_spec, exclude_dirs, exclude_exts, include_exts,
                   pending, yielded, files, tree_str, written, outcome, stdout,
                   text, numbered, output>>

\* main.py 84: the default output path, "project_dump.txt" in the working
\* directory.  (cli.py 96-101 names it after the root and the minute.)
OutputPath == <<"project_dump.txt">>

\* The file a successful write_text leaves: a readable text file holding
\* the document, which has at least the three 80-character rules of
\* header.py 49 and main.py 308, 313, and a line per manifest entry.
DumpFile == [Plain EXCEPT !.size = (80 * 3) + Len(files)]

\* The tree after output.write_text(text): the file is created or replaced
\* when the output path lies in the root directory.
AfterWrite ==
    IF output = "in_root"
    THEN [p \in DOMAIN fs \cup {OutputPath} |-> IF p = OutputPath THEN DumpFile ELSE fs[p]]
    ELSE fs

\* cli.py 157-162, main.py 330-335: one write_text; OSError ends the run with
\* SystemExit, success prints the summary.
WriteOutput ==
    /\ pc = "write"
    /\ \E write_ok \in BOOLEAN :
          IF write_ok
          THEN /\ written' = Append(written, result_lines[1])
               /\ fs' = AfterWrite
               /\ stdout' = <<Len(files)>>
               /\ outcome' = "ok"
          ELSE /\ outcome' = "SystemExit: Error writing output file"
               /\ UNCHANGED <<written, stdout, fs>>
    /\ pc' = "done"
    /\ UNCHANGED <<program, args, root_kind, unreadable_dirs, gitignore_file,
                   gitignore_spec, exclude_dirs, exclude_exts, include_exts,
                   pending, yielded, files, tree_str, result_lines, text,
                   numbered, output>>

Next ==
    \/ LoadGitignore
    \/ CheckRoot
    \/ WalkDir
    \/ SortFiles
    \/ FormatHeader
    \/ BuildTree
    \/ Assemble
    \/ WriteOutput

Spec == Init /\ [][Next]_vars

-----------------------------------------------------------------------------
(* main() run a second time with the same arguments in the same directory *)

\* The second invocation: a new process starts main() from its first
\* statement; the arguments, the working directory and the tree as the
\* first run left it stay, everything main computed is gone.
Rerun ==
    /\ pc = "done"
    /\ outcome = "ok"
    /\ Len(written) = 1
    /\ pc' = IF program = "cli" THEN "load_gitignore" ELSE "check_root"
    /\ outcome' = "running"
    /\ gitignore_spec' = NoSpec
    /\ exclude_dirs' = {}
    /\ exclude_exts' = {}
    /\ include_exts' = NoExts
    /\ pending' = <<>>
    /\ yielded' = <<>>
    /\ files' = <<>>
    /\ tree_str' = <<>>
    /\ result_lines' = <<>>
    /\ stdout' = <<>>
    /\ UNCHANGED <<program, args, root_kind, fs, unreadable_dirs, gitignore_file,
                   written, text, numbered, output>>

\* The output path is the default one in the root (root "." and a relative
\* output path), or a path outside the tree.
InitRerun ==
    /\ InitRun
    /\ text = <<>>
    /\ numbered = <<>>
    /\ output \in {"in_root", "elsewhere"}

NextRerun ==
    \/ Next
    \/ Rerun

SpecRerun == InitRerun /\ [][NextRerun]_vars

-----------------------------------------------------------------------------
(* files.py: add_line_numbers, applied to every short text *)

\* The characters the texts are written from: 'a', '\n' and '\r'.
Alphabet == {97, 10, 13}

Texts == UNION {[1..n -> Alphabet] : n \in 0..MaxLen}

\* The line boundaries of str.splitlines(): \n \v \f \r \x1c \x1d \x1e \x85
\* U+2028 U+2029, and \r\n taken as one.
LineBreaks == {10, 11, 12, 13, 28, 29, 30, 133, 8232, 8233}

RECURSIVE SplitFrom(_, _, _)
SplitFrom(s, i, cur) ==
    IF i > Len(s) THEN (IF cur = <<>> THEN <<>> ELSE <<cur>>)
    ELSE IF s[i] \in LineBreaks
    THEN <<cur>> \o SplitFrom(s, IF s[i] = 13 /\ i < Len(s) /\ s[i + 1] = 10
                                  THEN i + 2 ELSE i + 1, <<>>)
    ELSE SplitFrom(s, i + 1, Append(cur, s[i]))

\* text.splitlines(): the lines without their terminators; no empty last
\* line after a final terminator.
splitlines(s) == SplitFrom(s, 1, <<>>)

RECURSIVE str(_)
\* str(n) for n >= 0: its decimal digits.
str(n) == IF n < 10 THEN <<48 + n>> ELSE str(n \div 10) \o <<48 + (n % 10)>>

\* s.rjust(width): spaces on the left up to width.
rjust(s, width) ==
    IF Len(s) >= width THEN s ELSE [i \in 1..(width - Len(s)) |-> 32] \o s

RECURSIVE join(_, _)
\* sep.join(parts)
join(sep, parts) ==
    IF parts = <<>> THEN <<>>
    ELSE IF Len(parts) = 1 THEN parts[1]
    ELSE parts[1] \o sep \o join(sep, Tail(parts))

\* add_line_numbers with width = len(str(len(lines) - 1)).
NarrowWidth(t, start) ==
    LET lines == splitlines(t)
        width == Len(str(IF Len(lines) > 1 THEN Len(lines) - 1 ELSE 0))
        numbered_lines == [k \in 1..Len(lines) |->
                              rjust(str(start + k - 1), width) \o <<32, 124, 32>> \o lines[k]]
    IN  join(<<10>>, numbered_lines)

add_line_numbers(t, start) ==
    LET lines == splitlines(t)
        width == Len(str(start + Len(lines) - 1))
        numbered_lines == [k \in 1..Len(lines) |->
                              rjust(str(start + k - 1), width) \o <<32, 124, 32>> \o lines[k]]
    IN  join(<<10>>, numbered_lines)

\* The default scenario, for the specification that only numbers lines.
InitLN ==
    /\ text \in Texts
    /\ numbered = <<>>
    /\ program = "cli"
    /\ args = DefaultArgs
    /\ root_kind = "dir"
    /\ fs = [p \in TreeFiles \cup {GITIGNORE} |-> Plain]
    /\ unreadable_dirs = {}
    /\ gitignore_file = [state |-> "ok", patterns |-> <<>>]
    /\ pc = "load_gitignore"
    /\ gitignore_spec = NoSpec
    /\ exclude_dirs = {}
    /\ exclude_exts = {}
    /\ include_exts = NoExts
    /\ pending = <<>>
    /\ yielded = <<>>
    /\ files = <<>>
    /\ tree_str = <<>>
    /\ result_lines = <<>>
    /\ written = <<>>
    /\ outcome = "running"
    /\ stdout = <<>>
    /\ output = "elsewhere"

\* cli.py 150-151, main.py 323-324: content = add_line_numbers(content).
NumberLines ==
    /\ numbered = <<>>
    /\ numbered' = <<add_line_numbers(text, 1)>>
    /\ UNCHANGED <<text, program, args, root_kind, fs, unreadable_dirs,
                   gitignore_file, pc, gitignore_spec, exclude_dirs, exclude_exts,
                   include_exts, pending, yielded, files, tree_str, result_lines,
                   written, outcome, stdout, output>>

NextLN == NumberLines

SpecLN == InitLN /\ [][NextLN]_vars

-----------------------------------------------------------------------------
(* Properties *)

SeqRange(q) == {q[i] : i \in 1..Len(q)}

\* The document main assembled, once it has.
Assembled == result_lines # <<>>

Manifest == IF Assembled THEN result_lines[1].manifest ELSE <<>>

BlockPaths ==
    IF Assembled
    THEN [i \in 1..Len(result_lines[1].blocks) |-> result_lines[1].blocks[i].rel]
    ELSE <<>>

\* The walk is over and main holds its sorted list.
Selected == pc \in {"header", "tree", "assemble", "write", "done"}

StrictlyAscending(q) == \A i \in 1..(Len(q) - 1) : StrLess(q[i], q[i + 1])

\* The filter sets main builds, written from the arguments alone.
ExcludedDirNames ==
    DEFAULT_EXCLUDE_DIRS \cup SeqRange(args.exclude_dir)

DeniedExts ==
    {Chars(e) : e \in DEFAULT_EXCLUDE_EXTS}
    \cup {Lower(Chars(e)) : e \in SeqRange(args.exclude_ext)}

AllowedExts == {Lower(Chars(e)) : e \in SeqRange(args.include_ext.exts)}

\* Every directory above the file is listed by the walk: none is excluded by
\* name, none is pruned by the ignore rules, and each can be read.
Ancestors(p) == {SubSeq(p, 1, k) : k \in 0..(Len(p) - 1)}

Reached(p) ==
    \A d \in Ancestors(p) :
        /\ d \notin unreadable_dirs
        /\ d # <<>> => Descends(d)

BinaryCheck(p) ==
    IF program = "cli" THEN is_probably_binary(p) ELSE flat_is_probably_binary(p)

\* C1: once the walk is over, main's list holds exactly the yielded files in
\* strictly ascending order of their relative-path strings; and in the
\* assembled document the manifest and the sequence of block delimiters are
\* both that list.
C1_ManifestIsSortedSelection ==
    /\ Selected =>
          /\ Len(files) = Len(yielded)
          /\ SeqRange(files) = SeqRange(yielded)
          /\ StrictlyAscending([i \in 1..Len(files) |-> RelStr(files[i])])
    /\ Assembled =>
          /\ Manifest = BlockPaths
          /\ Manifest = [i \in 1..Len(files) |-> RelStr(files[i])]
          /\ StrictlyAscending(Manifest)
          /\ SeqRange(Manifest) = {RelStr(p) : p \in SeqRange(yielded)}

\* C1 witness: a document of three files or more was written although the
\* walk had produced the files in another order.
C1_Witness ==
    /\ written # <<>>
    /\ Len(written[1].manifest) >= 3
    /\ yielded # files
    /\ written[1].manifest = [i \in 1..Len(files) |-> RelStr(files[i])]

\* C2: no yielded file lies beneath a directory whose name is excluded, and
\* the walk never queues such a directory; so none is in the manifest.
C2_ExcludedDirsNeverEntered ==
    /\ \A d \in SeqRange(pending) :
          \A k \in 1..Len(d) : d[k] \notin ExcludedDirNames
    /\ \A p \in SeqRange(yielded) \cup SeqRange(files) :
          \A k \in 1..(Len(p) - 1) : p[k] \notin ExcludedDirNames
    /\ \A p \in DOMAIN fs :
          (\E k \in 1..(Len(p) - 1) : p[k] \in ExcludedDirNames)
              => RelStr(p) \notin SeqRange(Manifest)

\* C2 witness: the walk is over, vendor is excluded by --exclude-dir, and
\* vendor/keep.txt, which passes every file filter, was not yielded while
\* other files were.
C2_Witness ==
    /\ pc = "header"
    /\ args.exclude_dir = <<"vendor">>
    /\ Yields(<<"vendor", "keep.txt">>)
    /\ <<"vendor", "keep.txt">> \notin SeqRange(yielded)
    /\ <<"src", "build", "gen.py">> \notin SeqRange(yielded)
    /\ yielded # <<>>

\* C3: every yielded file has a lowercased suffix that is in the allow-list
\* when there is one, and that is not in the deny-list.
C3_AllowAndDenyBothApply ==
    \A p \in SeqRange(yielded) :
        /\ args.include_ext.none \/ Lower(Suffix(Chars(Name(p)))) \in AllowedExts
        /\ Lower(Suffix(Chars(Name(p)))) \notin DeniedExts

\* C3 witness: .md is in the allow-list and in the deny-list, readme.md is
\* a plain text file the walk has visited, and it was not yielded.
C3_Witness ==
    /\ pc = "header"
    /\ ~args.include_ext.none
    /\ Chars(".md") \in AllowedExts
    /\ Chars(".md") \in DeniedExts
    /\ fs[<<"readme.md">>] = Plain
    /\ Reached(<<"readme.md">>)
    /\ <<"readme.md">> \notin SeqRange(yielded)

\* C4: once the walk is over, a file it reached that passes the extension,
\* binary and ignore checks is yielded exactly when stat() succeeds and its
\* size is at most max_bytes.
C4_SizeCeilingInclusive ==
    pc = "header" =>
        \A p \in DOMAIN fs :
            (/\ Reached(p)
             /\ PassesExtension(ExtOf(p))
             /\ ~BinaryCheck(p)
             /\ program = "cli" => PassesIgnore(p))
            => (p \in SeqRange(yielded)
                   <=> (fs[p].stat_ok /\ fs[p].size <= args.max_bytes))

\* C4 witness: with max_bytes 11 a file of 11 bytes was yielded.
C4_Witness ==
    /\ pc = "header"
    /\ args.max_bytes = 11
    /\ \E p \in SeqRange(yielded) : fs[p].size = 11

\* C5: a file that cannot be opened, or with a NUL among its first 8000
\* bytes, is classified binary and is never yielded, listed or dumped.
C5_BinaryNeverIncluded ==
    \A p \in DOMAIN fs :
        (~fs[p].open_ok \/ (fs[p].nul >= 1 /\ fs[p].nul <= 8000))
        => /\ is_probably_binary(p)
           /\ flat_is_probably_binary(p)
           /\ p \notin SeqRange(yielded)
           /\ p \notin SeqRange(files)
           /\ RelStr(p) \notin SeqRange(Manifest)
           /\ RelStr(p) \notin SeqRange(BlockPaths)

\* C5 witness: the allow-list holds .md, readme.md has its first NUL at
\* byte 8000 and passes every other check, and the walk is over without it.
C5_Witness ==
    /\ pc = "header"
    /\ program = "cli"
    /\ ~args.include_ext.none
    /\ fs[<<"readme.md">>].nul = 8000
    /\ PassesExtension(ExtOf(<<"readme.md">>))
    /\ PassesSize(<<"readme.md">>)
    /\ PassesIgnore(<<"readme.md">>)
    /\ Reached(<<"readme.md">>)
    /\ <<"readme.md">> \notin SeqRange(yielded)

\* The ignore rules are in force: the package entry point loaded a readable
\* .gitignore.
IgnoreActive ==
    /\ program = "cli"
    /\ ~args.no_gitignore
    /\ root_kind = "dir"
    /\ gitignore_file.state = "ok"

\* The last line of .gitignore that matches rel is a plain (excluding) one.
LastMatchIsPlain(rel) ==
    LET P == gitignore_file.patterns IN
    \E i \in 1..Len(P) :
        /\ PatternMatches(P[i], rel)
        /\ ~P[i].neg
        /\ \A j \in (i + 1)..Len(P) : ~PatternMatches(P[j], rel)

\* The file passes every filter other than the ignore rules, and no
\* directory above it is unreadable or excluded by name.
PassesOtherFilters(p) ==
    /\ PassesExtension(ExtOf(p))
    /\ PassesSize(p)
    /\ ~is_probably_binary(p)
    /\ Name(p) # ".gitignore"
    /\ \A d \in Ancestors(p) :
          /\ d \notin unreadable_dirs
          /\ d # <<>> => Name(d) \notin ExcludedDirNames

\* C6 as claimed: with the ignore rules in force, a file that passes the
\* other filters is yielded exactly when the last pattern matching its own
\* relative path is not a plain one.
C6_LastPatternOfFileDecides ==
    (pc = "header" /\ IgnoreActive) =>
        \A p \in DOMAIN fs :
            PassesOtherFilters(p)
            => (p \in SeqRange(yielded) <=> ~LastMatchIsPlain(p))

\* C6 as amended: such a file is yielded exactly when the last pattern
\* matching its relative path is not a plain one and the same holds of every
\* directory above it: an ignored directory is pruned, and a negation does
\* not re-include a file beneath it.
C6_LastPatternDecidesUnlessPruned ==
    (pc = "header" /\ IgnoreActive) =>
        \A p \in DOMAIN fs :
            PassesOtherFilters(p)
            => (p \in SeqRange(yielded)
                   <=> /\ ~LastMatchIsPlain(p)
                       /\ \A d \in Ancestors(p) : d # <<>> => ~LastMatchIsPlain(d))

\* C6 witness: .gitignore excludes readme.md and negates that in a later
\* line, and readme.md was yielded.
C6_Witness ==
    /\ pc = "header"
    /\ IgnoreActive
    /\ gitignore_file.patterns =
          <<[neg |-> FALSE, segs |-> <<"readme.md">>], [neg |-> TRUE, segs |-> <<"readme.md">>]>>
    /\ <<"readme.md">> \in SeqRange(yielded)

\* C7: the package entry point never yields, keeps or lists the root's
\* .gitignore.
C7_PatternFileNeverListed ==
    program = "cli" =>
        /\ GITIGNORE \notin SeqRange(yielded)
        /\ GITIGNORE \notin SeqRange(files)
        /\ RelStr(GITIGNORE) \notin SeqRange(Manifest)

\* C7 witness: .gitignore negates itself, is a small text file that passes
\* the extension, size, binary and ignore-rule checks, and the walk is over
\* with other files yielded.
C7_Witness ==
    /\ pc = "header"
    /\ IgnoreActive
    /\ [neg |-> TRUE, segs |-> <<".gitignore">>] \in SeqRange(gitignore_file.patterns)
    /\ PassesExtension(ExtOf(GITIGNORE))
    /\ PassesSize(GITIGNORE)
    /\ ~is_probably_binary(GITIGNORE)
    /\ ~matches_gitignore(gitignore_spec, GITIGNORE)
    /\ yielded # <<>>

\* C8 as claimed: with a valid root no run is ended by the PermissionError
\* of a directory that cannot be listed, and a block whose file cannot be
\* read holds the inline marker.
C8_LocalFailuresNeverAbort ==
    /\ root_kind = "dir" => outcome # "PermissionError"
    /\ Assembled =>
          \A i \in 1..Len(files) :
              ~fs[files[i]].read_ok
              => result_lines[1].blocks[i].content = "<<ERROR: could not read file>>"

\* Nothing in the tree is unreadable and .gitignore, if there is one, decodes.
NoLocalFailure ==
    /\ unreadable_dirs = {}
    /\ gitignore_file.state \in {"ok", "missing"}
    /\ \A p \in DOMAIN fs : fs[p].stat_ok /\ fs[p].open_ok /\ fs[p].read_ok

\* C9 as claimed, on trees without local failures: the package entry point
\* ends with SystemExit and nothing written when the root is not a
\* directory; otherwise it ends either with SystemExit on a failed write, or
\* with one write and the summary for len(files) files.
C9_ExitsOnlyOnRootOrWriteFailure ==
    (program = "cli" /\ pc = "done" /\ NoLocalFailure) =>
        IF root_kind # "dir"
        THEN /\ outcome = "SystemExit: Root path does not exist or is not a directory"
             /\ written = <<>>
             /\ stdout = <<>>
        ELSE \/ /\ outcome = "SystemExit: Error writing output file"
                /\ stdout = <<>>
             \/ /\ outcome = "ok"
                /\ Len(written) = 1
                /\ stdout = <<Len(files)>>

-----------------------------------------------------------------------------
(* Properties of add_line_numbers, under SpecLN *)

RECURSIVE SplitAtNewlines(_, _, _)
SplitAtNewlines(s, i, cur) ==
    IF i > Len(s) THEN <<cur>>
    ELSE IF s[i] = 10 THEN <<cur>> \o SplitAtNewlines(s, i + 1, <<>>)
    ELSE SplitAtNewlines(s, i + 1, Append(cur, s[i]))

\* The lines of a numbered text: none for the empty text, else the pieces
\* between its '\n' characters.
OutLines(out) ==
    IF out = <<>> THEN <<>> ELSE SplitAtNewlines(out, 1, <<>>)

RECURSIVE DigitCount(_)
\* The count of decimal digits of n.
DigitCount(n) == IF n < 10 THEN 1 ELSE 1 + DigitCount(n \div 10)

RECURSIVE DigitsValue(_)
DigitsValue(ds) ==
    IF ds = <<>> THEN 0
    ELSE 10 * DigitsValue(SubSeq(ds, 1, Len(ds) - 1)) + (ds[Len(ds)] - 48)

\* field is the number n right-aligned: spaces, then the digits of n with
\* no leading zero.
IsRightAligned(field, n) ==
    \E k \in 0..(Len(field) - 1) :
        /\ \A j \in 1..k : field[j] = 32
        /\ \A j \in (k + 1)..Len(field) : field[j] >= 48 /\ field[j] <= 57
        /\ field[k + 1] # 48 \/ k + 1 = Len(field)
        /\ DigitsValue(SubSeq(field, k + 1, Len(field))) = n

\* Every line i is number i right-aligned in a field of w characters, w the
\* count of digits of the largest line number, then " | ".
PrefixesWellFormed(lines) ==
    LET w == DigitCount(Len(lines)) IN
    \A i \in 1..Len(lines) :
        /\ Len(lines[i]) >= w + 3
        /\ IsRightAligned(SubSeq(lines[i], 1, w), i)
        /\ SubSeq(lines[i], w + 1, w + 3) = <<32, 124, 32>>

\* The lines with the prefix of each removed, joined again.
Stripped(lines) ==
    LET w == DigitCount(Len(lines)) IN
    join(<<10>>, [i \in 1..Len(lines) |-> SubSeq(lines[i], w + 4, Len(lines[i]))])

RECURSIVE TerminatorsToNewline(_)
\* t with each line terminator (\r\n as one) replaced by '\n'.
TerminatorsToNewline(t) ==
    IF t = <<>> THEN <<>>
    ELSE IF t[1] = 13 /\ Len(t) >= 2 /\ t[2] = 10
    THEN <<10>> \o TerminatorsToNewline(SubSeq(t, 3, Len(t)))
    ELSE IF t[1] \in LineBreaks THEN <<10>> \o TerminatorsToNewline(Tail(t))
    ELSE <<t[1]>> \o TerminatorsToNewline(Tail(t))

WithoutFinalNewline(t) ==
    IF t # <<>> /\ t[Len(t)] = 10 THEN SubSeq(t, 1, Len(t) - 1) ELSE t

-----------------------------------------------------------------------------
(* C12: what the directory tree shows *)

\* The path a tree line stands for: its name under the path of the nearest
\* earlier line that is one level less indented.
RECURSIVE LinePath(_, _)
LinePath(lines, i) ==
    IF Len(lines[i].prefix) = 0 THEN <<>>
    ELSE LET up == MaxOf({j \in 1..(i - 1) :
                            Len(lines[j].prefix) = Len(lines[i].prefix) - 1})
         IN  LinePath(lines, up) \o <<lines[i].name>>

\* Every entry below the root none of whose directories above it has an
\* excluded name: the children of the root and of each non-excluded directory.
ExpectedTreeEntries ==
    {p \in (AllDirs \cup DOMAIN fs) \ {<<>>} :
        \A k \in 1..(Len(p) - 1) : p[k] \notin exclude_dirs}

\* The lines after the root's are exactly one per expected entry.
ShowsExpectedEntries(lines) ==
    /\ Len(lines) = 1 + Cardinality(ExpectedTreeEntries)
    /\ {LinePath(lines, i) : i \in 2..Len(lines)} = ExpectedTreeEntries

\* C12: the tree lists one line for each child of the root and of every
\* directory whose name is not in exclude_dirs, and nothing below a directory
\* whose name is; neither the ignore patterns nor the extension, size and
\* binary filters change it.  Stated for the tree a run has built, and for
\* build_dir_tree applied to what main passes it once the selection is done.
C12_TreeShowsAllButExcludedSubtrees ==
    /\ tree_str # <<>> => ShowsExpectedEntries(tree_str)
    /\ (pc = "header" /\ ~TreeRaises) => ShowsExpectedEntries(build_dir_tree)

\* C12 witness: a run built the tree; src/build is one line with nothing
\* under it, and a file the selection rejected has its line.
C12_Witness ==
    /\ pc = "assemble"
    /\ tree_str # <<>>
    /\ \E i \in 2..Len(tree_str) : LinePath(tree_str, i) = <<"src", "build">>
    /\ \A i \in 2..Len(tree_str) : LinePath(tree_str, i) # <<"src", "build", "gen.py">>
    /\ \E i \in 2..Len(tree_str) :
          /\ LinePath(tree_str, i) \in DOMAIN fs
          /\ LinePath(tree_str, i) \notin SeqRange(files)
          /\ Len(LinePath(tree_str, i)) = 1


-----------------------------------------------------------------------------
(* C11: two runs in a row *)

\* C11: when main() has run twice with the same arguments from the same
\* directory and nothing else touched the tree, the second document has the
\* same tree block, manifest and content blocks as the first (the documents
\* of the model leave out the header and its timestamp line).
C11_RerunWritesSameDocument ==
    Len(written) = 2 => written[2] = written[1]

=============================================================================
